---- MODULE Spec2Model ----
(***************************************************************************)
(* Model of the aftershock-prediction front end: the Home page with its    *)
(* DetailPanel, LocationRiskPanel and SearchBar, the ModelsPage, and the   *)
(* pure helpers of EarthquakeActivityCard / RealTimeActivityCard.          *)
(*                                                                         *)
(* React state of a component is one record per component; a request in    *)
(* flight is a record that remembers what its async closure captured.      *)
(* A handler together with the render and effects it causes is one action. *)
(***************************************************************************)
EXTENDS Integers, Sequences, FiniteSets, TLC

VARIABLES
  page,          \* "none" | "home" | "models": the page that is mounted
  session,       \* "none" | "map" | "search": the part of Home the user works with
  home,          \* Home's useState cells
  homeReqs,      \* loadEarthquakes calls awaiting fetchRecentEarthquakes
  geoPending,    \* a getCurrentPosition callback is outstanding
  detail,        \* DetailPanel's useState cells (+ inst: the mounted instance)
  detailReqs,    \* fetchPredictions calls awaiting predictAftershocks
  pdf,           \* arguments of the last generateAftershockPDF call
  risk,          \* LocationRiskPanel's useState cells (+ inst)
  riskCalls,     \* fetchLocationRisk calls awaiting their four scenarios
  search,        \* SearchBar's useState cells and its debounce timer
  searchReqs,    \* fetchSuggestions calls awaiting the geocoder
  models,        \* ModelsPage's useState cells
  modelsReqs,    \* loadCoverage calls awaiting fetchModelCoverage
  nextId,        \* number of fetch calls started so far (their ids)
  obs,           \* observer: last event, last successful payloads, counters
  card           \* an activity card: its props and what its render computed

vars == <<page, session, home, homeReqs, geoPending, detail, detailReqs, pdf, risk,
          riskCalls, search, searchReqs, models, modelsReqs, nextId, obs, card>>

----------------------------------------------------------------------------
(* Bounds of the model *)

\* fetch calls (of all components together) one behaviour may start
MaxFetch == 3

\* the same bound in the "panels" session, where opening both panels
\* takes four requests: the list, a prediction, the suggestions, the risk
MaxPanelFetch == 4

\* clock granularity of the debounce timer, in ms
TickMs == 150

----------------------------------------------------------------------------
(* Values *)

NoError == "null"

NullEq == [id |-> 0, load |-> 0]

NullPredictions == [eq |-> 0, req |-> 0]

NullLocation == [name |-> <<>>, latitude |-> 0, longitude |-> 0, obj |-> 0]

NullCoords == <<>>

\* ids of the events the catalog service knows
EqIds == {1, 2}

\* latitude / longitude / magnitude (tenths) of a catalog event
EqLatitude(i) == IF i = 1 THEN 35 ELSE -33

EqLongitude(i) == IF i = 1 THEN 139 ELSE -70

EqMagnitude10(i) == IF i = 1 THEN 62 ELSE 45

\* the earthquake lists fetchRecentEarthquakes may answer with (event ids,
\* most recent first)
CatalogAnswers == {<<>>, <<1>>, <<2, 1>>}

\* the position the browser's geolocation reports
GeoPosition == <<48, 2>>

\* the values of the time filter the user picks (FilterButtons offers
\* 1, 7, 30 and 365 days)
TimeFilters == {7, 30}

\* A behaviour explores one of three sessions on Home: the user works the
\* map, the list, the filters and the panels; or the search bar and the
\* panels; or types one query and works the panels for one more request.
\* Responses and timers arrive in all of them.
Sessions == {"map", "search", "panels"}

\* the sessions in which the user works the search bar
SearchSessions == {"search", "panels"}

Comps == {"Home", "Detail", "Risk", "Search", "Models"}

----------------------------------------------------------------------------
(* Observer: what the environment saw, never read by a handler *)

Event(kind, comp, id) == [kind |-> kind, comp |-> comp, id |-> id]

\* the events that may start a request: mount, change of a watched input,
\* click on Retry
TriggerKinds == {"mount", "change", "retry"}

ObsInit ==
  [ev        |-> Event("init", "none", 0),
   okHome    |-> [seen |-> FALSE, list |-> <<>>],
   okDetail  |-> [inst |-> 0, predictions |-> NullPredictions],
   triggers  |-> [c \in Comps |-> 0],
   issued    |-> [c \in Comps |-> 0],
   sinceChange |-> 0,
   sentAfter |-> 0,
   opened    |-> 0,
   replaced  |-> "none",
   chosen    |-> FALSE,
   cleared   |-> FALSE]

\* a triggering event of component c that started n requests
ObsTrigger(kind, c, id, n) ==
  [obs EXCEPT !.ev = Event(kind, c, id),
              !.triggers[c] = @ + 1,
              !.issued[c] = @ + n,
              !.replaced = "none"]

\* an event that settles and starts no request
ObsQuiet == [obs EXCEPT !.ev = Event("ui", "none", 0), !.replaced = "none"]

\* any other event of component c, which started n requests
ObsEvent(kind, c, id, n) ==
  [obs EXCEPT !.ev = Event(kind, c, id), !.issued[c] = @ + n,
              !.replaced = "none"]

\* the selection a handler of Home has just put an end to
ObsReplaced(o, what) == [o EXCEPT !.replaced = what]

----------------------------------------------------------------------------
(* Home *)

HomeInit ==
  [earthquakes        |-> <<>>,
   selectedEarthquake |-> NullEq,
   searchedLocation   |-> NullLocation,
   timeFilter         |-> 7,
   loading            |-> TRUE,
   error              |-> NoError,
   mapCenter          |-> <<20, 0>>,
   mapZoom            |-> 2,
   showEarthquakeList |-> FALSE,
   userLocation       |-> NullCoords]

\* the earthquake records of a response: fresh objects, one per event
EqObject(i, load) == [id |-> i, load |-> load]

EqObjects(ids, load) == [k \in 1..Len(ids) |-> EqObject(ids[k], load)]

\* what fetchRecentEarthquakes may resolve to: a body without the
\* earthquakes field, or one with a list
LoadAnswers ==
  {[has |-> FALSE, ids |-> <<>>]} \cup {[has |-> TRUE, ids |-> a] : a \in CatalogAnswers}

\* loadEarthquakes up to its await: the flags it sets
LoadStart(h) == [h EXCEPT !.loading = TRUE, !.error = NoError]

\* the pending call: the state its closure captured when it was created
LoadRequest(h, id) ==
  [id               |-> id,
   timeFilter       |-> h.timeFilter,
   userLocation     |-> h.userLocation # NullCoords,
   searchedLocation |-> h.searchedLocation # NullLocation]

\* loadEarthquakes after a resolved await (try body, then finally)
LoadSucceeded(h, r, data) ==
  LET list == IF data.has THEN EqObjects(data.ids, r.id) ELSE <<>>
      recentre == /\ data.has
                  /\ Len(data.ids) > 0
                  /\ ~r.userLocation
                  /\ ~r.searchedLocation
  IN [h EXCEPT !.earthquakes = list,
               !.mapCenter = IF recentre
                               THEN <<EqLatitude(list[1].id), EqLongitude(list[1].id)>>
                               ELSE @,
               !.mapZoom = IF recentre THEN 5 ELSE @,
               !.loading = FALSE]

\* variant of LoadFailed: the catch block without the finally block
LoadFailedNoFinally(h, r) ==
  [h EXCEPT !.error = "Failed to load earthquakes. Please try again."]

\* variant of LoadFailed: the catch block also empties the list
LoadFailedClearsList(h, r) ==
  [h EXCEPT !.earthquakes = <<>>,
            !.error = "Failed to load earthquakes. Please try again.",
            !.loading = FALSE]

\* loadEarthquakes after a rejected await (catch, then finally)
LoadFailed(h, r) ==
  [h EXCEPT !.error = "Failed to load earthquakes. Please try again.",
            !.loading = FALSE]

\* variant of LoadFailedRequests: the catch block calls loadEarthquakes()
LoadFailedReloads(h, r, id) == {LoadRequest(h, id)}

\* the requests the catch block of loadEarthquakes starts: none
LoadFailedRequests(h, r, id) == {}

\* the list panel shows the error text
HomeErrorShown(h) == h.showEarthquakeList /\ h.error # NoError

\* the Retry button of the list panel is rendered
HomeRetryRendered(h) == h.showEarthquakeList /\ h.error # NoError

\* an earthquake of the list can be clicked: a marker of the map (rendered
\* unless loading) or a row of the list panel (rendered unless error)
HomeEqClickable(h) ==
  \/ ~h.loading
  \/ h.showEarthquakeList /\ h.error = NoError

----------------------------------------------------------------------------
(* DetailPanel *)

DetailMounted == home.selectedEarthquake # NullEq

\* useState initial values of a new instance
DetailFresh(inst) ==
  [predictions |-> NullPredictions,
   loading     |-> TRUE,
   error       |-> NoError,
   exporting   |-> FALSE,
   inst        |-> inst]

\* fetchPredictions up to its await
PredictStart(d) == [d EXCEPT !.loading = TRUE, !.error = NoError]

\* the pending call: the earthquake prop its closure captured
PredictRequest(d, eq, id) == [id |-> id, eq |-> eq, inst |-> d.inst]

\* response.predictions of the prediction service for a request
PredictionsFor(r) == [eq |-> r.eq.id, req |-> r.id]

\* variant of PredictSucceeded: a response is stored only while the panel
\* still shows loading
PredictSucceededWhileLoading(d, r) ==
  IF d.loading
    THEN [d EXCEPT !.predictions = PredictionsFor(r), !.loading = FALSE]
    ELSE d

\* fetchPredictions after a resolved await (try body, then finally)
PredictSucceeded(d, r) ==
  [d EXCEPT !.predictions = PredictionsFor(r), !.loading = FALSE]

\* fetchPredictions after a rejected await (catch, then finally)
PredictFailed(d, r) ==
  [d EXCEPT !.error = "Failed to load predictions", !.loading = FALSE]

\* the requests the catch block of fetchPredictions starts: none
PredictFailedRequests(d, r, id) == {}

\* variant of DetailAlive: the state of the panel outlives the panel, and
\* a setState reaches whichever instance is mounted
DetailAliveAnyInstance(r) == DetailMounted

\* a setState of an async continuation reaches only the instance that
\* started it, while that instance is mounted
DetailAlive(r) == DetailMounted /\ r.inst = detail.inst

\* the Export button is rendered (inside the predictions block) and enabled
ExportEnabled(d) ==
  d.predictions # NullPredictions /\ ~d.loading /\ ~d.exporting

\* the panel shows the error text
DetailErrorShown(d) == d.error # NoError

\* the render of DetailPanel holds no Retry button
DetailRetryRendered(d) == FALSE

\* the panel shows the forecast block
DetailShowsPredictions(d) == d.predictions # NullPredictions /\ ~d.loading

----------------------------------------------------------------------------
(* LocationRiskPanel *)

RiskMounted ==
  home.searchedLocation # NullLocation /\ home.selectedEarthquake = NullEq

NullRisk ==
  [set |-> FALSE, location |-> NullLocation, scenarios |-> <<>>, modelInfo |-> 0]

RiskFresh(inst) ==
  [riskData |-> NullRisk, loading |-> TRUE, error |-> NoError, inst |-> inst]

\* the mainshock scenarios of fetchLocationRisk (magnitude in tenths)
Scenarios == <<40, 50, 60, 70>>

\* fetchLocationRisk up to Promise.all
RiskStart(rk) == [rk EXCEPT !.loading = TRUE, !.error = NoError]

\* the pending call: one predictAftershocks request per scenario
RiskCall(rk, loc, id) ==
  [id       |-> id,
   inst     |-> rk.inst,
   location |-> loc,
   status   |-> [k \in 1..Len(Scenarios) |-> "pending"]]

\* the scenario results that are not null, in the order of Scenarios
ValidScenarios(status) ==
  LET F[k \in 0..Len(Scenarios)] ==
        IF k = 0 THEN <<>>
        ELSE IF status[k] = "ok" THEN Append(F[k - 1], Scenarios[k])
        ELSE F[k - 1]
  IN F[Len(Scenarios)]

\* variant of RiskSettled: the risk data are stored only when no scenario
\* failed
RiskSettledAllOrNothing(rk, call, status) ==
  LET valid == ValidScenarios(status)
  IN IF Len(valid) = Len(Scenarios)
       THEN [rk EXCEPT !.riskData = [set       |-> TRUE,
                                     location  |-> call.location,
                                     scenarios |-> valid,
                                     modelInfo |-> valid[1]],
                       !.loading = FALSE]
       ELSE [rk EXCEPT !.error = "Unable to calculate risk for this location",
                       !.loading = FALSE]

\* fetchLocationRisk after Promise.all resolved (rest of try, then finally)
RiskSettled(rk, call, status) ==
  LET valid == ValidScenarios(status)
  IN IF Len(valid) > 0
       THEN [rk EXCEPT !.riskData = [set       |-> TRUE,
                                     location  |-> call.location,
                                     scenarios |-> valid,
                                     modelInfo |-> valid[1]],
                       !.loading = FALSE]
       ELSE [rk EXCEPT !.error = "Unable to calculate risk for this location",
                       !.loading = FALSE]

RiskAlive(call) == RiskMounted /\ call.inst = risk.inst

\* the panel shows the error text
RiskErrorShown(rk) == rk.error # NoError

\* the render of LocationRiskPanel holds no Retry button
RiskRetryRendered(rk) == FALSE

----------------------------------------------------------------------------
(* SearchBar *)

\* the debounce delay of the search input, in ms
DebounceDelay == 300

\* the values the search input takes (sequences of characters)
QuerySet == {<<>>, <<"a", "b">>, <<"a", "b", " ">>, <<"a", "b", "c">>}

\* String.prototype.trim: white space removed at both ends
RECURSIVE TrimLeft(_)
TrimLeft(q) == IF q # <<>> /\ Head(q) = " " THEN TrimLeft(Tail(q)) ELSE q

RECURSIVE TrimRight(_)
TrimRight(q) ==
  IF q # <<>> /\ q[Len(q)] = " " THEN TrimRight(SubSeq(q, 1, Len(q) - 1)) ELSE q

Trim(q) == TrimRight(TrimLeft(q))

\* the places the geocoder knows: formatted name and coordinates
Places ==
  {[name |-> <<"a", "b", "c", "d">>, lat |-> 40, lon |-> -74]}

\* the feature lists the geocoder may answer with
GeocoderAnswers == {<<>>} \cup {<<p>> : p \in Places}

\* debounceTimer.current: null, or the timer set last (named by the query
\* of its closure)
NoTimer == [set |-> FALSE, query |-> <<>>]

\* clearTimeout(debounceTimer.current)
ClearTimeout(timers, ref) ==
  IF ref.set THEN {t \in timers : t.query # ref.query} ELSE timers

SearchInit ==
  [searchQuery |-> <<>>,
   isFocused   |-> FALSE,
   suggestions |-> <<>>,
   loading     |-> FALSE,
   error       |-> NoError,
   timers        |-> {},
   debounceTimer |-> NoTimer]

\* variant of DebounceEffect: the timer set before is left pending
DebounceEffectNoClear(s) ==
  IF Len(Trim(s.searchQuery)) >= 3
    THEN [s EXCEPT !.timers = @ \cup {[query |-> s.searchQuery, age |-> 0]},
                   !.debounceTimer = [set |-> TRUE, query |-> s.searchQuery]]
    ELSE [s EXCEPT !.suggestions = <<>>]

\* variant of DebounceEffect: the length is taken of the query as typed
DebounceEffectUntrimmed(s) ==
  LET cleared == ClearTimeout(s.timers, s.debounceTimer)
  IN IF Len(s.searchQuery) >= 3
       THEN [s EXCEPT !.timers = cleared \cup {[query |-> s.searchQuery, age |-> 0]},
                      !.debounceTimer = [set |-> TRUE, query |-> s.searchQuery]]
       ELSE [s EXCEPT !.timers = cleared, !.suggestions = <<>>]

\* the debounce effect, run after a render in which searchQuery changed:
\* the pending timer is cleared, and a new one set for a query of three
\* characters or more
DebounceEffect(s) ==
  LET cleared == ClearTimeout(s.timers, s.debounceTimer)
  IN IF Len(Trim(s.searchQuery)) >= 3
       THEN [s EXCEPT !.timers = cleared \cup {[query |-> s.searchQuery, age |-> 0]},
                      !.debounceTimer = [set |-> TRUE, query |-> s.searchQuery]]
       ELSE [s EXCEPT !.timers = cleared, !.suggestions = <<>>]

\* a timer set with setTimeout(f, 300) may run
TimerDue(t) == t.age >= DebounceDelay

\* fetchSuggestions sends no request for a short query
SuggestTooShort(q) == q = <<>> \/ Len(q) < 3

\* fetchSuggestions: the early return, or the flags set before the await
SuggestStart(s, q) ==
  IF SuggestTooShort(q)
    THEN [s EXCEPT !.suggestions = <<>>]
    ELSE [s EXCEPT !.loading = TRUE, !.error = NoError]

SuggestRequest(q, id) == [id |-> id, query |-> q]

\* fetchSuggestions after an ok response with the given features
SuggestSucceeded(s, r, features) ==
  [s EXCEPT !.suggestions = features, !.loading = FALSE]

\* fetchSuggestions after a failed fetch or a response that is not ok
SuggestFailed(s, r) ==
  [s EXCEPT !.error = "Unable to fetch location suggestions",
            !.suggestions = <<>>,
            !.loading = FALSE]

\* the requests the catch block of fetchSuggestions starts: none
SuggestFailedRequests(s, r, id) == {}

\* the suggestions dropdown is rendered with its rows
DropdownRendered(s) ==
  s.isFocused /\ Len(s.searchQuery) >= 3 /\ Len(s.suggestions) > 0

\* the clear button of the input is rendered
ClearRendered(s) == s.searchQuery # <<>> /\ ~s.loading

----------------------------------------------------------------------------
(* ModelsPage *)

NullCoverage == [req |-> 0]

ModelsInit == [coverage |-> NullCoverage, loading |-> TRUE, error |-> NoError]

CoverageStart(m) == [m EXCEPT !.loading = TRUE, !.error = NoError]

CoverageRequest(id) == [id |-> id]

CoverageSucceeded(m, r) ==
  [m EXCEPT !.coverage = [req |-> r.id], !.loading = FALSE]

CoverageFailed(m, r) ==
  [m EXCEPT !.error = "Failed to load model coverage", !.loading = FALSE]

\* the requests the catch block of loadCoverage starts: none
CoverageFailedRequests(m, r, id) == {}

\* the page shows the error text
ModelsErrorShown(m) == ~m.loading /\ m.error # NoError

\* the Retry button of the page is rendered
ModelsRetryRendered(m) == ~m.loading /\ m.error # NoError

----------------------------------------------------------------------------
(* Activity cards: the data they are given *)

\* An earthquake record: id, time (an ISO date: day number relative to the
\* mainshock's day, and ms within the day), magnitude (tenths), latitude
\* and longitude (tenths of a degree).

\* 1000 * 60 * 60 * 24
DayMs == 86400000

\* 7 * 24 * 60 * 60 * 1000
SevenDaysMs == 604800000

\* new Date(time): the ms timestamp of a valid date string
NewDate(time) == time.day * DayMs + time.ms

\* the date string of a ms timestamp
DateString(t) == [day |-> t \div DayMs, ms |-> t % DayMs]

Max(a, b) == IF a >= b THEN a ELSE b

Min(a, b) == IF a <= b THEN a ELSE b

\* calculateDistance at the sample points, in metres (rounded down): the
\* value of R * 2 * atan2(sqrt(a), sqrt(1 - a)) with R = 6371 and
\* a = sin(dLat/2)^2 + cos(lat1) cos(lat2) sin(dLon/2)^2, angles in radians
HaversineMetres ==
  (<<350, 1390, 350, 1390>> :> 0) @@
  (<<350, 1390, 353, 1392>> :> 37992) @@
  (<<350, 1390, 390, 1390>> :> 444779) @@
  (<<350, 1390, 395, 1390>> :> 500377) @@
  (<<350, 1390, 400, 1400>> :> 562917) @@
  (<<350, 1390, 350, 1500>> :> 1001433) @@
  (<<390, 1390, 350, 1390>> :> 444779) @@
  (<<390, 1390, 353, 1392>> :> 411802) @@
  (<<390, 1390, 390, 1390>> :> 0) @@
  (<<390, 1390, 395, 1390>> :> 55597) @@
  (<<390, 1390, 400, 1400>> :> 140447) @@
  (<<390, 1390, 350, 1500>> :> 1072355)

calculateDistance(lat1, lon1, lat2, lon2) ==
  HaversineMetres[<<lat1, lon1, lat2, lon2>>]

\* getDirection at the sample points: the compass name at index
\* round(((bearing + 360) % 360) / 45) % 8, the bearing computed by the
\* function's formula (which passes degrees to sin and cos)
CompassNames ==
  (<<350, 1390, 350, 1390>> :> "N") @@
  (<<350, 1390, 353, 1392>> :> "NW") @@
  (<<350, 1390, 390, 1390>> :> "S") @@
  (<<350, 1390, 395, 1390>> :> "S") @@
  (<<350, 1390, 400, 1400>> :> "SW") @@
  (<<350, 1390, 350, 1500>> :> "NE") @@
  (<<390, 1390, 350, 1390>> :> "N") @@
  (<<390, 1390, 353, 1392>> :> "N") @@
  (<<390, 1390, 390, 1390>> :> "N") @@
  (<<390, 1390, 395, 1390>> :> "N") @@
  (<<390, 1390, 400, 1400>> :> "NW") @@
  (<<390, 1390, 350, 1500>> :> "E")

getDirection(lat1, lon1, lat2, lon2) ==
  CompassNames[<<lat1, lon1, lat2, lon2>>]

\* the mainshock the EarthquakeActivityCard is rendered for
Mainshock(magnitude) ==
  [id |-> 100, time |-> DateString(0), magnitude |-> magnitude,
   latitude |-> 350, longitude |-> 1390]

\* magnitudes of the mainshock: radius 500 km and radius 620 km
MainMagnitudes == {45, 62}

\* the locations the RealTimeActivityCard is rendered for
Locations ==
  {[latitude |-> 350, longitude |-> 1390], [latitude |-> 390, longitude |-> 1390]}

\* the times at which the RealTimeActivityCard is rendered
RenderTimes == {0, DayMs}

\* an event of a list: the mainshock's own record, or another event
Shock(ms, magnitude, latitude, longitude) ==
  [self |-> FALSE, time |-> DateString(ms), magnitude |-> magnitude,
   latitude |-> latitude, longitude |-> longitude]

\* events around the mainshock: just before it, at its time, at the edges
\* of the seven days before it, after it; below and above magnitude 3.5;
\* at the epicentre, near it, and around the radius of 500 and of 620 km
Neighbours ==
  {[Shock(0, 0, 350, 1390) EXCEPT !.self = TRUE],
   Shock(-1, 35, 390, 1390),
   Shock(0, 50, 350, 1390),
   Shock(-SevenDaysMs, 40, 353, 1392),
   Shock(-SevenDaysMs - 1, 60, 350, 1390),
   Shock(-DayMs, 45, 400, 1400),
   Shock(DayMs, 45, 395, 1390),
   Shock(-3 * DayMs, 34, 350, 1390),
   Shock(-2 * DayMs, 55, 350, 1500)}

\* a swarm before the mainshock: events that all count as foreshocks,
\* two of them of equal magnitude
Swarm ==
  {Shock(-DayMs, 40, 350, 1390),
   Shock(-2 * DayMs, 40, 390, 1390),
   Shock(-3 * DayMs, 52, 353, 1392)}

\* length of the lists of Neighbours
MaxShort == 3

\* length of the lists of Swarm events
MaxLong == 6

\* the record of the k-th event of a list
EventAt(shock, k, main) ==
  IF shock.self THEN main
  ELSE [id |-> k, time |-> shock.time, magnitude |-> shock.magnitude,
        latitude |-> shock.latitude, longitude |-> shock.longitude]

EventList(shocks, main) ==
  [k \in 1..Len(shocks) |-> EventAt(shocks[k], k, main)]

ShockLists ==
  UNION {[1..n -> Neighbours] : n \in 0..MaxShort}
    \cup UNION {[1..n -> Swarm] : n \in 1..MaxLong}

----------------------------------------------------------------------------
(* Activity cards: the helpers *)

\* Array.prototype.sort with (a, b) => new Date(b.time) - new Date(a.time):
\* a stable sort, most recent first
InsertByTime(sorted, eq) ==
  LET n == Cardinality({k \in 1..Len(sorted) :
                          NewDate(sorted[k].time) >= NewDate(eq.time)})
  IN SubSeq(sorted, 1, n) \o <<eq>> \o SubSeq(sorted, n + 1, Len(sorted))

SortByTime(earthquakes) ==
  LET F[k \in 0..Len(earthquakes)] ==
        IF k = 0 THEN <<>> ELSE InsertByTime(F[k - 1], earthquakes[k])
  IN F[Len(earthquakes)]

\* Array.prototype.sort with (a, b) => b.magnitude - a.magnitude: a stable
\* sort, largest first
InsertByMagnitude(sorted, eq) ==
  LET n == Cardinality({k \in 1..Len(sorted) : sorted[k].magnitude >= eq.magnitude})
  IN SubSeq(sorted, 1, n) \o <<eq>> \o SubSeq(sorted, n + 1, Len(sorted))

SortByMagnitude(earthquakes) ==
  LET F[k \in 0..Len(earthquakes)] ==
        IF k = 0 THEN <<>> ELSE InsertByMagnitude(F[k - 1], earthquakes[k])
  IN F[Len(earthquakes)]

\* Array.prototype.slice(from, to)
Slice(array, from, to) == SubSeq(array, from + 1, Min(to, Len(array)))

\* { ...eq, distance, direction }
WithDistance(eq, lat, lon) ==
  [id |-> eq.id, time |-> eq.time, magnitude |-> eq.magnitude,
   latitude |-> eq.latitude, longitude |-> eq.longitude,
   distance |-> calculateDistance(lat, lon, eq.latitude, eq.longitude),
   direction |-> getDirection(lat, lon, eq.latitude, eq.longitude)]

\* max(500, min(1500, magnitude * 100)), in km
getMagnitudeBasedRadius(magnitude) == Max(500, Min(1500, magnitude * 10))

\* variant of filterEarthquakesByRadius: the filter keeps the events
\* outside the radius too
filterEarthquakesUnfiltered(earthquakes, lat, lon, radiusKm) ==
  SortByTime([k \in 1..Len(earthquakes) |-> WithDistance(earthquakes[k], lat, lon)])

\* variant of filterEarthquakesByRadius: the events are left in the order
\* of the list
filterEarthquakesUnsorted(earthquakes, lat, lon, radiusKm) ==
  LET mapped == [k \in 1..Len(earthquakes) |->
                   WithDistance(earthquakes[k], lat, lon)]
      InRadius(eq) == eq.distance <= radiusKm * 1000
  IN SelectSeq(mapped, InRadius)

\* filterEarthquakesByRadius of EarthquakeActivityCard (distance in metres)
filterEarthquakesByRadius(earthquakes, lat, lon, radiusKm) ==
  LET mapped == [k \in 1..Len(earthquakes) |->
                   WithDistance(earthquakes[k], lat, lon)]
      InRadius(eq) == eq.distance <= radiusKm * 1000
  IN SortByTime(SelectSeq(mapped, InRadius))

\* filterEarthquakesByRadius of RealTimeActivityCard: the same text
RealTime_filterEarthquakesByRadius(earthquakes, lat, lon, radiusKm) ==
  LET mapped == [k \in 1..Len(earthquakes) |->
                   WithDistance(earthquakes[k], lat, lon)]
      InRadius(eq) == eq.distance <= radiusKm * 1000
  IN SortByTime(SelectSeq(mapped, InRadius))

\* variant of separateBeforeAfter: an event at the mainshock's time counts
\* as before
separateBeforeAfterInclusive(earthquakes, mainshockTime, mainshockId) ==
  LET mainshockDate == NewDate(mainshockTime)
      IsBefore(eq) == eq.id # mainshockId /\ NewDate(eq.time) <= mainshockDate
      IsAfter(eq) == eq.id # mainshockId /\ NewDate(eq.time) > mainshockDate
  IN [before |-> SelectSeq(earthquakes, IsBefore),
      after |-> SelectSeq(earthquakes, IsAfter)]

separateBeforeAfter(earthquakes, mainshockTime, mainshockId) ==
  LET mainshockDate == NewDate(mainshockTime)
      acc[k \in 0..Len(earthquakes)] ==
        IF k = 0 THEN [before |-> <<>>, after |-> <<>>]
        ELSE LET eq == earthquakes[k]
             IN IF eq.id = mainshockId THEN acc[k - 1]
                ELSE IF NewDate(eq.time) < mainshockDate
                  THEN [acc[k - 1] EXCEPT !.before = Append(@, eq)]
                  ELSE [acc[k - 1] EXCEPT !.after = Append(@, eq)]
  IN acc[Len(earthquakes)]

\* variant of identifyForeshocks: the list is cut before it is sorted
identifyForeshocksCutFirst(beforeEarthquakes, mainshockTime) ==
  LET sevenDaysBefore == NewDate(mainshockTime) - SevenDaysMs
      Keep(eq) == NewDate(eq.time) >= sevenDaysBefore /\ eq.magnitude >= 35
  IN SortByMagnitude(Slice(SelectSeq(beforeEarthquakes, Keep), 0, 5))

identifyForeshocks(beforeEarthquakes, mainshockTime) ==
  LET sevenDaysBefore == NewDate(mainshockTime) - SevenDaysMs
      Keep(eq) == NewDate(eq.time) >= sevenDaysBefore /\ eq.magnitude >= 35
  IN Slice(SortByMagnitude(SelectSeq(beforeEarthquakes, Keep)), 0, 5)

\* the heatmap loops of both cards: Array(7).fill(0), and one count per
\* event whose whole number of days before the reference is 0..6
HeatmapAt(earthquakes, reference) ==
  LET heatmap[k \in 0..Len(earthquakes)] ==
        IF k = 0 THEN [i \in 0..6 |-> 0]
        ELSE LET days == (reference - NewDate(earthquakes[k].time)) \div DayMs
             IN IF days >= 0 /\ days < 7
                  THEN [heatmap[k - 1] EXCEPT ![6 - days] = @ + 1]
                  ELSE heatmap[k - 1]
  IN heatmap[Len(earthquakes)]

generateBeforeHeatmap(earthquakes, mainshockTime) ==
  HeatmapAt(earthquakes, NewDate(mainshockTime))

\* generateHeatmapData: the reference is the time of its own new Date()
generateHeatmapData(earthquakes, now) == HeatmapAt(earthquakes, now)

----------------------------------------------------------------------------
(* Activity cards: what the functions do to the arrays they are given *)

\* the elements of an array
Elements(array) == {array[k] : k \in 1..Len(array)}

\* The arrays a function works on, by name.  map, filter and slice put a
\* new array under `to` and leave the array `on` they are called on; sort
\* orders the array `on` itself and returns it; push appends to `on`.
\* A callback is the function from the elements to what it returns.
ArrayMap(arrays, on, to, callback) ==
  [arrays EXCEPT ![to] = [k \in 1..Len(arrays[on]) |-> callback[arrays[on][k]]]]

ArrayFilter(arrays, on, to, callback) ==
  LET Kept(eq) == callback[eq]
  IN [arrays EXCEPT ![to] = SelectSeq(arrays[on], Kept)]

\* sort with the comparator on the time or on the magnitude
ArraySort(arrays, on, by) ==
  [arrays EXCEPT ![on] = IF by = "time" THEN SortByTime(arrays[on])
                         ELSE SortByMagnitude(arrays[on])]

ArraySlice(arrays, on, to, from, upTo) ==
  [arrays EXCEPT ![to] = Slice(arrays[on], from, upTo)]

ArrayPush(arrays, on, element) ==
  [arrays EXCEPT ![on] = Append(arrays[on], element)]

\* variant of filterEarthquakesByRadius: earthquakes.sort(...) comes first
filterEarthquakesByRadius_SortsFirst(earthquakes, lat, lon, radiusKm) ==
  LET start == [earthquakes |-> earthquakes, mapped |-> <<>>, filtered |-> <<>>]
      sorted == ArraySort(start, "earthquakes", "time")
      mapped == ArrayMap(sorted, "earthquakes", "mapped",
                         [eq \in Elements(earthquakes) |->
                            WithDistance(eq, lat, lon)])
  IN ArrayFilter(mapped, "mapped", "filtered",
                 [eq \in Elements(mapped.mapped) |->
                    eq.distance <= radiusKm * 1000])

\* filterEarthquakesByRadius (both cards): earthquakes.map(...) returns a
\* new array of new records, .filter(...) another one, and .sort(...)
\* orders that one; `filtered` is returned
filterEarthquakesByRadius_Arrays(earthquakes, lat, lon, radiusKm) ==
  LET start == [earthquakes |-> earthquakes, mapped |-> <<>>, filtered |-> <<>>]
      mapped == ArrayMap(start, "earthquakes", "mapped",
                         [eq \in Elements(earthquakes) |->
                            WithDistance(eq, lat, lon)])
      filtered == ArrayFilter(mapped, "mapped", "filtered",
                              [eq \in Elements(mapped.mapped) |->
                                 eq.distance <= radiusKm * 1000])
  IN ArraySort(filtered, "filtered", "time")

\* separateBeforeAfter: earthquakes.reduce(...) pushes every event but the
\* mainshock onto one of two new arrays
separateBeforeAfter_Arrays(earthquakes, mainshockTime, mainshockId) ==
  LET mainshockDate == NewDate(mainshockTime)
      acc[k \in 0..Len(earthquakes)] ==
        IF k = 0
          THEN [earthquakes |-> earthquakes, before |-> <<>>, after |-> <<>>]
        ELSE LET eq == acc[k - 1].earthquakes[k]
             IN IF eq.id = mainshockId THEN acc[k - 1]
                ELSE IF NewDate(eq.time) < mainshockDate
                  THEN ArrayPush(acc[k - 1], "before", eq)
                  ELSE ArrayPush(acc[k - 1], "after", eq)
  IN acc[Len(earthquakes)]

\* identifyForeshocks: beforeEarthquakes.filter(...) returns a new
\* array, .sort(...) orders that one, .slice(0, 5) returns `top`
identifyForeshocks_Arrays(beforeEarthquakes, mainshockTime) ==
  LET sevenDaysBefore == NewDate(mainshockTime) - SevenDaysMs
      start == [beforeEarthquakes |-> beforeEarthquakes,
                filtered |-> <<>>, top |-> <<>>]
      filtered == ArrayFilter(start, "beforeEarthquakes", "filtered",
                              [eq \in Elements(beforeEarthquakes) |->
                                 /\ NewDate(eq.time) >= sevenDaysBefore
                                 /\ eq.magnitude >= 35])
      sorted == ArraySort(filtered, "filtered", "magnitude")
  IN ArraySlice(sorted, "filtered", "top", 0, 5)

\* generateBeforeHeatmap and generateHeatmapData: earthquakes.forEach(...)
\* reads eq.time and counts in the new array `heatmap`
Heatmap_Arrays(earthquakes, reference) ==
  [earthquakes |-> earthquakes, heatmap |-> HeatmapAt(earthquakes, reference)]

\* findLastEarthquakeHere: earthquakes.filter(...) returns a new array and
\* .sort(...) orders that one
findLastEarthquakeHere_Arrays(earthquakes, lat, lon) ==
  LET start == [earthquakes |-> earthquakes, nearby |-> <<>>]
      nearby == ArrayFilter(start, "earthquakes", "nearby",
                            [eq \in Elements(earthquakes) |->
                               calculateDistance(lat, lon, eq.latitude,
                                                 eq.longitude) <= 50 * 1000])
  IN ArraySort(nearby, "nearby", "time")

----------------------------------------------------------------------------
(* Activity cards: metrics *)

\* sum of the magnitudes: reduce((sum, eq) => sum + eq.magnitude, 0)
SumMagnitude(earthquakes) ==
  LET sum[k \in 0..Len(earthquakes)] ==
        IF k = 0 THEN 0 ELSE sum[k - 1] + earthquakes[k].magnitude
  IN sum[Len(earthquakes)]

\* count > 0 ? sum / count : 0, as a fraction of tenths
AvgMagnitude(earthquakes) ==
  IF Len(earthquakes) > 0
    THEN [num |-> SumMagnitude(earthquakes), den |-> Len(earthquakes)]
    ELSE [num |-> 0, den |-> 1]

\* avg > tenths / 10
Above(avg, tenths) == avg.num > tenths * avg.den

\* getBeforeActivityLevel with && in its second test
getBeforeActivityLevelBoth(count, avgMag) ==
  IF count > 25 \/ Above(avgMag, 45) THEN "HIGH"
  ELSE IF count > 15 /\ Above(avgMag, 40) THEN "ELEVATED"
  ELSE IF count > 5 THEN "MODERATE"
  ELSE "LOW"

getBeforeActivityLevel(count, avgMag) ==
  IF count > 25 \/ Above(avgMag, 45) THEN "HIGH"
  ELSE IF count > 15 \/ Above(avgMag, 40) THEN "ELEVATED"
  ELSE IF count > 5 THEN "MODERATE"
  ELSE "LOW"

\* getActivityLevel with the thresholds of getBeforeActivityLevel
getActivityLevelAsBefore(count7d, avgMag7d) ==
  IF count7d > 25 \/ Above(avgMag7d, 45) THEN "HIGH"
  ELSE IF count7d > 15 \/ Above(avgMag7d, 40) THEN "ELEVATED"
  ELSE IF count7d > 5 THEN "MODERATE"
  ELSE "LOW"

getActivityLevel(count7d, avgMag7d) ==
  IF count7d > 50 \/ Above(avgMag7d, 55) THEN "HIGH"
  ELSE IF count7d > 25 \/ Above(avgMag7d, 50) THEN "ELEVATED"
  ELSE IF count7d > 10 \/ Above(avgMag7d, 45) THEN "MODERATE"
  ELSE "LOW"

\* no earthquake: null
NoEvent == <<>>

\* after.reduce((max, eq) => eq.magnitude > max.magnitude ? eq : max, after[0])
LargestOf(after) ==
  LET max[k \in 0..Len(after)] ==
        IF k = 0 THEN after[1]
        ELSE IF after[k].magnitude > max[k - 1].magnitude THEN after[k]
        ELSE max[k - 1]
  IN IF Len(after) > 0 THEN <<max[Len(after)]>> ELSE NoEvent

\* findLastEarthquakeHere: the most recent event within 50 km, or null
findLastEarthquakeHere(earthquakes, lat, lon) ==
  LET Here(eq) ==
        calculateDistance(lat, lon, eq.latitude, eq.longitude) <= 50 * 1000
      nearby == SortByTime(SelectSeq(earthquakes, Here))
  IN IF Len(nearby) > 0 THEN <<nearby[1]>> ELSE NoEvent

\* (now - new Date(eq.time)) / (1000 * 60 * 60 * 24) <= days
WithinDays(eq, now, days) ==
  LET age == now - NewDate(eq.time)
  IN age \div DayMs < days \/ (age \div DayMs = days /\ age % DayMs = 0)

----------------------------------------------------------------------------
(* Initial state: nothing is mounted yet *)

NoPdf == [earthquake |-> NullEq, predictions |-> NullPredictions]

\* no activity card is rendered
NoCard == [stage |-> "none"]

PagesInit ==
  /\ page = "none"
  /\ session = "none"
  /\ home = HomeInit
  /\ homeReqs = {}
  /\ geoPending = FALSE
  /\ detail = DetailFresh(0)
  /\ detailReqs = {}
  /\ pdf = NoPdf
  /\ risk = RiskFresh(0)
  /\ riskCalls = {}
  /\ search = SearchInit
  /\ searchReqs = {}
  /\ models = ModelsInit
  /\ modelsReqs = {}
  /\ nextId = 0
  /\ obs = ObsInit

Init == PagesInit /\ card = NoCard

CanFetch == nextId < (IF session = "panels" THEN MaxPanelFetch ELSE MaxFetch)

panelVars == <<detail, detailReqs, pdf, risk, riskCalls>>

searchVars == <<search, searchReqs>>

modelsVars == <<models, modelsReqs>>

----------------------------------------------------------------------------
(* Home: actions *)

\* first render of Home and its effect: loadEarthquakes()
MountHome(s) ==
  /\ page = "none"
  /\ CanFetch
  /\ page' = "home"
  /\ session' = s
  /\ home' = LoadStart(home)
  /\ homeReqs' = homeReqs \cup {LoadRequest(home, nextId + 1)}
  /\ nextId' = nextId + 1
  /\ obs' = ObsTrigger("mount", "Home", nextId + 1, 1)
  /\ UNCHANGED <<card, geoPending, panelVars, searchVars, modelsVars>>

\* FilterButtons: setTimeFilter(v) with another value; the effect on
\* [timeFilter] calls loadEarthquakes()
SetTimeFilter(v) ==
  /\ page = "home"
  /\ session = "map"
  /\ v # home.timeFilter
  /\ CanFetch
  /\ LET h == [home EXCEPT !.timeFilter = v]
     IN /\ home' = LoadStart(h)
        /\ homeReqs' = homeReqs \cup {LoadRequest(h, nextId + 1)}
  /\ nextId' = nextId + 1
  /\ obs' = ObsTrigger("change", "Home", nextId + 1, 1)
  /\ UNCHANGED <<card, page, session, geoPending, panelVars, searchVars, modelsVars>>

\* click on Retry in the list panel: loadEarthquakes()
RetryLoad ==
  /\ page = "home"
  /\ session = "map"
  /\ HomeRetryRendered(home)
  /\ CanFetch
  /\ home' = LoadStart(home)
  /\ homeReqs' = homeReqs \cup {LoadRequest(home, nextId + 1)}
  /\ nextId' = nextId + 1
  /\ obs' = ObsTrigger("retry", "Home", nextId + 1, 1)
  /\ UNCHANGED <<card, page, session, geoPending, panelVars, searchVars, modelsVars>>

\* fetchRecentEarthquakes resolves for the pending call r
LoadResolve(r, data) ==
  /\ r \in homeReqs
  /\ home' = LoadSucceeded(home, r, data)
  /\ homeReqs' = homeReqs \ {r}
  /\ obs' = [ObsEvent("ok", "Home", r.id, 0) EXCEPT
               !.okHome = [seen |-> TRUE,
                           list |-> IF data.has THEN EqObjects(data.ids, r.id)
                                    ELSE <<>>]]
  /\ UNCHANGED <<card, page, session, geoPending, panelVars, searchVars, modelsVars, nextId>>

\* fetchRecentEarthquakes rejects for the pending call r
LoadReject(r) ==
  /\ r \in homeReqs
  /\ LET again == LoadFailedRequests(home, r, nextId + 1)
     IN /\ home' = LoadFailed(home, r)
        /\ homeReqs' = (homeReqs \ {r}) \cup again
        /\ nextId' = nextId + Cardinality(again)
        /\ obs' = ObsEvent("fail", "Home", r.id, Cardinality(again))
  /\ UNCHANGED <<card, page, session, geoPending, panelVars, searchVars, modelsVars>>

\* the earthquake objects a click can pass to onEarthquakeClick: the rows
\* and markers of the list, and the hazard zones of the selected one
ClickableEqs ==
  {home.earthquakes[k] : k \in 1..Len(home.earthquakes)}
    \cup (IF DetailMounted /\ ~home.loading THEN {home.selectedEarthquake} ELSE {})

\* variant of EarthquakeClicked: the searched location is kept
EarthquakeClickedKeepsSearch(h, e) ==
  [h EXCEPT !.selectedEarthquake = e,
            !.mapCenter = <<EqLatitude(e.id), EqLongitude(e.id)>>,
            !.mapZoom = 7,
            !.showEarthquakeList = FALSE]

\* the state of Home after handleEarthquakeClick(e)
EarthquakeClicked(h, e) ==
  [h EXCEPT !.selectedEarthquake = e,
            !.searchedLocation = NullLocation,
            !.mapCenter = <<EqLatitude(e.id), EqLongitude(e.id)>>,
            !.mapZoom = 7,
            !.showEarthquakeList = FALSE]

\* handleEarthquakeClick(e), and the panels' mount, unmount and effects
HandleEarthquakeClick(e) ==
  /\ page = "home"
  /\ HomeEqClickable(home)
  /\ e \in ClickableEqs
  /\ home' = EarthquakeClicked(home, e)
  /\ risk' = IF RiskMounted THEN RiskFresh(risk.inst) ELSE risk
  /\ LET replaced == IF home.searchedLocation # NullLocation
                       THEN "location" ELSE "none"
     IN IF e # home.selectedEarthquake
          THEN /\ CanFetch
               /\ LET d == IF DetailMounted THEN detail
                           ELSE DetailFresh(detail.inst + 1)
                  IN /\ detail' = PredictStart(d)
                     /\ detailReqs' =
                          detailReqs \cup {PredictRequest(d, e, nextId + 1)}
               /\ nextId' = nextId + 1
               /\ obs' = ObsReplaced(
                           [ObsTrigger(IF DetailMounted THEN "change" ELSE "mount",
                                       "Detail", nextId + 1, 1) EXCEPT
                              !.opened = IF DetailMounted THEN @ ELSE nextId + 1],
                           replaced)
          ELSE /\ UNCHANGED <<detail, detailReqs, nextId>>
               /\ obs' = ObsReplaced(ObsQuiet, replaced)
  /\ UNCHANGED <<card, page, session, homeReqs, geoPending, pdf, riskCalls, searchVars,
                 modelsVars>>

\* handleLocationClick: getCurrentPosition is asked for the position
HandleLocationClick ==
  /\ page = "home"
  /\ session = "map"
  /\ ~geoPending
  /\ home.userLocation = NullCoords
  /\ geoPending' = TRUE
  /\ obs' = ObsQuiet
  /\ UNCHANGED <<card, page, session, home, homeReqs, panelVars, searchVars, modelsVars,
                 nextId>>

\* the success callback of getCurrentPosition
GeoSuccess ==
  /\ geoPending
  /\ geoPending' = FALSE
  /\ home' = [home EXCEPT !.userLocation = GeoPosition,
                          !.mapCenter = GeoPosition,
                          !.mapZoom = 10]
  /\ obs' = ObsQuiet
  /\ UNCHANGED <<card, page, session, homeReqs, panelVars, searchVars, modelsVars, nextId>>

\* the error callback of getCurrentPosition: an alert, no state
GeoError ==
  /\ geoPending
  /\ geoPending' = FALSE
  /\ obs' = ObsQuiet
  /\ UNCHANGED <<card, page, session, home, homeReqs, panelVars, searchVars, modelsVars,
                 nextId>>

\* onShowList of the SearchBar: the list panel is toggled
ToggleList ==
  /\ page = "home"
  /\ session = "map"
  /\ home' = [home EXCEPT !.showEarthquakeList = ~@]
  /\ obs' = ObsQuiet
  /\ UNCHANGED <<card, page, session, homeReqs, geoPending, panelVars, searchVars,
                 modelsVars, nextId>>

\* the overlay or the X of the list panel
CloseList ==
  /\ page = "home"
  /\ session = "map"
  /\ home.showEarthquakeList
  /\ home' = [home EXCEPT !.showEarthquakeList = FALSE]
  /\ obs' = ObsQuiet
  /\ UNCHANGED <<card, page, session, homeReqs, geoPending, panelVars, searchVars,
                 modelsVars, nextId>>

----------------------------------------------------------------------------
(* DetailPanel: actions *)

\* onClose: setSelectedEarthquake(null); the panel unmounts
CloseDetail ==
  /\ page = "home"
  /\ DetailMounted
  /\ home' = [home EXCEPT !.selectedEarthquake = NullEq]
  /\ detail' = DetailFresh(detail.inst)
  /\ obs' = ObsQuiet
  /\ UNCHANGED <<card, page, session, homeReqs, geoPending, detailReqs, pdf, risk, riskCalls,
                 searchVars, modelsVars, nextId>>

\* predictAftershocks resolves for the pending call r
PredictResolve(r) ==
  /\ r \in detailReqs
  /\ detailReqs' = detailReqs \ {r}
  /\ IF DetailAlive(r)
       THEN /\ detail' = PredictSucceeded(detail, r)
            /\ obs' = [ObsEvent("ok", "Detail", r.id, 0) EXCEPT
                         !.okDetail = [inst |-> r.inst,
                                       predictions |-> PredictionsFor(r)]]
       ELSE /\ detail' = detail
            /\ obs' = ObsEvent("drop", "Detail", r.id, 0)
  /\ UNCHANGED <<card, page, session, home, homeReqs, geoPending, pdf, risk, riskCalls,
                 searchVars, modelsVars, nextId>>

\* predictAftershocks rejects for the pending call r
PredictReject(r) ==
  /\ r \in detailReqs
  /\ IF DetailAlive(r)
       THEN LET again == PredictFailedRequests(detail, r, nextId + 1)
            IN /\ detail' = PredictFailed(detail, r)
               /\ detailReqs' = (detailReqs \ {r}) \cup again
               /\ nextId' = nextId + Cardinality(again)
               /\ obs' = ObsEvent("fail", "Detail", r.id, Cardinality(again))
       ELSE /\ detail' = detail
            /\ detailReqs' = detailReqs \ {r}
            /\ nextId' = nextId
            /\ obs' = ObsEvent("drop", "Detail", r.id, 0)
  /\ UNCHANGED <<card, page, session, home, homeReqs, geoPending, pdf, risk, riskCalls,
                 searchVars, modelsVars>>

\* handleExportPDF: generateAftershockPDF(earthquake, predictions) is
\* called; it returns (the 1 s timer is set) or throws
HandleExportPDF(threw) ==
  /\ page = "home"
  /\ session = "map"
  /\ DetailMounted
  /\ ExportEnabled(detail)
  /\ pdf' = [earthquake |-> home.selectedEarthquake,
             predictions |-> detail.predictions]
  /\ detail' = [detail EXCEPT !.exporting = ~threw]
  /\ obs' = ObsQuiet
  /\ UNCHANGED <<card, page, session, home, homeReqs, geoPending, detailReqs, risk, riskCalls,
                 searchVars, modelsVars, nextId>>

\* the timer of handleExportPDF: setExporting(false)
ExportTimeout ==
  /\ DetailMounted
  /\ detail.exporting
  /\ detail' = [detail EXCEPT !.exporting = FALSE]
  /\ obs' = ObsQuiet
  /\ UNCHANGED <<card, page, session, home, homeReqs, geoPending, detailReqs, pdf, risk,
                 riskCalls, searchVars, modelsVars, nextId>>

----------------------------------------------------------------------------
(* LocationRiskPanel: actions *)

\* handleLocationSearch(location) of Home, called by the SearchBar, and the
\* panels' mount, unmount and effects: a new location object always runs
\* the effect on [location], which calls fetchLocationRisk()
HandleLocationSearch(name, lat, lon) ==
  /\ CanFetch
  /\ LET loc == [name |-> name, latitude |-> lat, longitude |-> lon,
                 obj |-> nextId + 1]
         rk == IF RiskMounted THEN risk ELSE RiskFresh(risk.inst + 1)
     IN /\ home' = [home EXCEPT !.searchedLocation = loc,
                                !.selectedEarthquake = NullEq,
                                !.mapCenter = <<lat, lon>>,
                                !.mapZoom = 10,
                                !.showEarthquakeList = FALSE]
        /\ risk' = RiskStart(rk)
        /\ riskCalls' = riskCalls \cup {RiskCall(rk, loc, nextId + 1)}
  /\ detail' = IF DetailMounted THEN DetailFresh(detail.inst) ELSE detail
  /\ nextId' = nextId + 1
  /\ UNCHANGED <<card, page, session, homeReqs, geoPending, detailReqs, pdf, modelsVars>>

\* onClose of the panel: handleClearSearch; the panel unmounts
HandleClearSearch ==
  /\ page = "home"
  /\ RiskMounted
  /\ home' = [home EXCEPT !.searchedLocation = NullLocation]
  /\ risk' = RiskFresh(risk.inst)
  /\ obs' = ObsQuiet
  /\ UNCHANGED <<card, page, session, homeReqs, geoPending, detail, detailReqs, pdf, riskCalls,
                 searchVars, modelsVars, nextId>>

\* the request of scenario k of the pending call settles; when it was the
\* last one, Promise.all resolves and fetchLocationRisk runs to its end.
\* The results are read only once all four have settled, in the order of
\* the list whatever the order of arrival, so the four are taken in the
\* order of the list.
ScenarioSettle(call, k, ok) ==
  /\ call \in riskCalls
  /\ call.status[k] = "pending"
  /\ \A j \in 1..(k - 1) : call.status[j] # "pending"
  /\ LET status == [call.status EXCEPT ![k] = IF ok THEN "ok" ELSE "fail"]
         done == \A j \in 1..Len(Scenarios) : status[j] # "pending"
     IN /\ riskCalls' = IF done THEN riskCalls \ {call}
                        ELSE (riskCalls \ {call})
                               \cup {[call EXCEPT !.status = status]}
        /\ risk' = IF done /\ RiskAlive(call)
                     THEN RiskSettled(risk, call, status)
                     ELSE risk
        /\ obs' = ObsEvent(IF ~RiskAlive(call) THEN "drop"
                           ELSE IF ok THEN "ok" ELSE "fail",
                           "Risk", call.id, 0)
  /\ UNCHANGED <<card, page, session, home, homeReqs, geoPending, detail, detailReqs, pdf,
                 searchVars, modelsVars, nextId>>

----------------------------------------------------------------------------
(* SearchBar: actions *)

homeVars == <<home, homeReqs, geoPending>>

FocusInput ==
  /\ page = "home"
  /\ session \in SearchSessions
  /\ ~search.isFocused
  /\ search' = [search EXCEPT !.isFocused = TRUE]
  /\ obs' = ObsQuiet
  /\ UNCHANGED <<card, page, session, homeVars, panelVars, searchReqs, modelsVars, nextId>>

\* onBlur: setIsFocused(false) once its 200 ms timer has run
BlurInput ==
  /\ page = "home"
  /\ session = "search"
  /\ search.isFocused
  /\ search' = [search EXCEPT !.isFocused = FALSE]
  /\ obs' = ObsQuiet
  /\ UNCHANGED <<card, page, session, homeVars, panelVars, searchReqs, modelsVars, nextId>>

\* handleInputChange with another value, and the debounce effect
HandleInputChange(q) ==
  /\ page = "home"
  /\ session \in SearchSessions
  /\ session = "panels" => search.searchQuery = <<>>
  /\ search.isFocused
  /\ q # search.searchQuery
  /\ search' = DebounceEffect([search EXCEPT !.searchQuery = q])
  /\ obs' = [ObsQuiet EXCEPT !.sinceChange = 0, !.chosen = FALSE, !.cleared = FALSE]
  /\ UNCHANGED <<card, page, session, homeVars, panelVars, searchReqs, modelsVars, nextId>>

\* handleClear, and the debounce effect (the query was not empty)
HandleClear ==
  /\ page = "home"
  /\ session = "search"
  /\ ClearRendered(search)
  /\ search' = DebounceEffect([search EXCEPT !.searchQuery = <<>>,
                                             !.suggestions = <<>>,
                                             !.error = NoError])
  /\ obs' = [ObsQuiet EXCEPT !.sinceChange = 0, !.chosen = FALSE, !.cleared = TRUE]
  /\ UNCHANGED <<card, page, session, homeVars, panelVars, searchReqs, modelsVars, nextId>>

\* time passes while a timer is pending and none is due
Tick ==
  /\ search.timers # {}
  /\ \A t \in search.timers : ~TimerDue(t)
  /\ search' = [search EXCEPT
                  !.timers = {[t EXCEPT !.age = @ + TickMs] : t \in search.timers}]
  /\ obs' = [ObsQuiet EXCEPT
               !.sinceChange = IF @ < DebounceDelay THEN @ + TickMs ELSE @]
  /\ UNCHANGED <<card, page, session, homeVars, panelVars, searchReqs, modelsVars, nextId>>

\* the debounce timer runs: fetchSuggestions(searchQuery) with the query
\* of the render that set it
TimerFire(t) ==
  /\ t \in search.timers
  /\ TimerDue(t)
  /\ LET q == t.query
     IN /\ search' = [SuggestStart(search, q) EXCEPT !.timers = @ \ {t}]
        /\ IF SuggestTooShort(q)
             THEN /\ UNCHANGED <<searchReqs, nextId>>
                  /\ obs' = ObsQuiet
             ELSE /\ CanFetch
                  /\ searchReqs' = searchReqs \cup {SuggestRequest(q, nextId + 1)}
                  /\ nextId' = nextId + 1
                  /\ obs' = [ObsTrigger("change", "Search", nextId + 1, 1) EXCEPT
                               !.sentAfter = obs.sinceChange]
  /\ UNCHANGED <<card, page, session, homeVars, panelVars, modelsVars>>

\* the geocoder answers the pending call r with an ok response
SuggestResolve(r, features) ==
  /\ r \in searchReqs
  /\ search' = SuggestSucceeded(search, r, features)
  /\ searchReqs' = searchReqs \ {r}
  /\ obs' = ObsEvent("ok", "Search", r.id, 0)
  /\ UNCHANGED <<card, page, session, homeVars, panelVars, modelsVars, nextId>>

\* the fetch of the pending call r fails, or its response is not ok
SuggestReject(r) ==
  /\ r \in searchReqs
  /\ LET again == SuggestFailedRequests(search, r, nextId + 1)
     IN /\ search' = SuggestFailed(search, r)
        /\ searchReqs' = (searchReqs \ {r}) \cup again
        /\ nextId' = nextId + Cardinality(again)
        /\ obs' = ObsEvent("fail", "Search", r.id, Cardinality(again))
  /\ UNCHANGED <<card, page, session, homeVars, panelVars, modelsVars>>

\* handleSelectSuggestion(sg): the query becomes the suggestion's name,
\* Home's handleLocationSearch is called, the list is emptied; the
\* debounce effect runs when the query changed
SelectSuggestion(sg) ==
  /\ HandleLocationSearch(sg.name, sg.lat, sg.lon)
  /\ LET s == [search EXCEPT !.searchQuery = sg.name,
                             !.suggestions = <<>>,
                             !.isFocused = FALSE]
     IN search' = IF sg.name # search.searchQuery THEN DebounceEffect(s) ELSE s
  /\ obs' = ObsReplaced(
               [ObsTrigger(IF RiskMounted THEN "change" ELSE "mount", "Risk",
                           nextId + 1, Len(Scenarios)) EXCEPT
                  !.sinceChange = IF sg.name # search.searchQuery THEN 0 ELSE @,
                  !.chosen = TRUE,
                  !.cleared = FALSE],
               IF home.selectedEarthquake # NullEq THEN "earthquake" ELSE "none")
  /\ UNCHANGED searchReqs

\* click on a row of the dropdown
HandleSelectSuggestion(k) ==
  /\ page = "home"
  /\ session \in SearchSessions
  /\ DropdownRendered(search)
  /\ k \in 1..Len(search.suggestions)
  /\ SelectSuggestion(search.suggestions[k])

\* handleSearch: the form is submitted
HandleSearch ==
  /\ page = "home"
  /\ session = "search"
  /\ search.isFocused
  /\ Trim(search.searchQuery) # <<>>
  /\ Len(search.suggestions) > 0
  /\ SelectSuggestion(search.suggestions[1])

----------------------------------------------------------------------------
(* ModelsPage: actions *)

\* first render of ModelsPage and its effect: loadCoverage()
MountModels ==
  /\ page = "none"
  /\ CanFetch
  /\ page' = "models"
  /\ models' = CoverageStart(models)
  /\ modelsReqs' = modelsReqs \cup {CoverageRequest(nextId + 1)}
  /\ nextId' = nextId + 1
  /\ obs' = ObsTrigger("mount", "Models", nextId + 1, 1)
  /\ UNCHANGED <<card, session, homeVars, panelVars, searchVars>>

\* click on Retry: loadCoverage()
RetryCoverage ==
  /\ page = "models"
  /\ ModelsRetryRendered(models)
  /\ CanFetch
  /\ models' = CoverageStart(models)
  /\ modelsReqs' = modelsReqs \cup {CoverageRequest(nextId + 1)}
  /\ nextId' = nextId + 1
  /\ obs' = ObsTrigger("retry", "Models", nextId + 1, 1)
  /\ UNCHANGED <<card, page, session, homeVars, panelVars, searchVars>>

CoverageResolve(r) ==
  /\ r \in modelsReqs
  /\ models' = CoverageSucceeded(models, r)
  /\ modelsReqs' = modelsReqs \ {r}
  /\ obs' = ObsEvent("ok", "Models", r.id, 0)
  /\ UNCHANGED <<card, page, session, homeVars, panelVars, searchVars, nextId>>

CoverageReject(r) ==
  /\ r \in modelsReqs
  /\ LET again == CoverageFailedRequests(models, r, nextId + 1)
     IN /\ models' = CoverageFailed(models, r)
        /\ modelsReqs' = (modelsReqs \ {r}) \cup again
        /\ nextId' = nextId + Cardinality(again)
        /\ obs' = ObsEvent("fail", "Models", r.id, Cardinality(again))
  /\ UNCHANGED <<card, page, session, homeVars, panelVars, searchVars>>

----------------------------------------------------------------------------
(* The pages *)

Next ==
  \/ \E s \in Sessions : MountHome(s)
  \/ \E v \in TimeFilters : SetTimeFilter(v)
  \/ RetryLoad
  \/ \E r \in homeReqs, data \in LoadAnswers : LoadResolve(r, data)
  \/ \E r \in homeReqs : LoadReject(r)
  \/ \E e \in ClickableEqs : HandleEarthquakeClick(e)
  \/ HandleLocationClick
  \/ GeoSuccess
  \/ GeoError
  \/ ToggleList
  \/ CloseList
  \/ CloseDetail
  \/ \E r \in detailReqs : PredictResolve(r)
  \/ \E r \in detailReqs : PredictReject(r)
  \/ \E threw \in BOOLEAN : HandleExportPDF(threw)
  \/ ExportTimeout
  \/ HandleClearSearch
  \/ \E call \in riskCalls, k \in 1..Len(Scenarios), ok \in BOOLEAN :
       ScenarioSettle(call, k, ok)
  \/ FocusInput
  \/ BlurInput
  \/ \E q \in QuerySet : HandleInputChange(q)
  \/ HandleClear
  \/ Tick
  \/ \E t \in search.timers : TimerFire(t)
  \/ \E r \in searchReqs, f \in GeocoderAnswers : SuggestResolve(r, f)
  \/ \E r \in searchReqs : SuggestReject(r)
  \/ \E k \in 1..Len(search.suggestions) : HandleSelectSuggestion(k)
  \/ HandleSearch
  \/ MountModels
  \/ RetryCoverage
  \/ \E r \in modelsReqs : CoverageResolve(r)
  \/ \E r \in modelsReqs : CoverageReject(r)

Spec == Init /\ [][Next]_vars

----------------------------------------------------------------------------
(* Activity cards: the components *)

\* what a render of EarthquakeActivityCard computes
EarthquakeActivityCard(earthquake, allEarthquakes) ==
  LET radius == getMagnitudeBasedRadius(earthquake.magnitude)
      nearbyEarthquakes ==
        filterEarthquakesByRadius(allEarthquakes, earthquake.latitude,
                                  earthquake.longitude, radius)
      parts == separateBeforeAfter(nearbyEarthquakes, earthquake.time, earthquake.id)
      sevenDaysBefore == NewDate(earthquake.time) - SevenDaysMs
      InWindow(eq) == NewDate(eq.time) >= sevenDaysBefore
      before7d == SelectSeq(parts.before, InWindow)
  IN [radius              |-> radius,
      nearbyEarthquakes   |-> nearbyEarthquakes,
      before              |-> parts.before,
      after               |-> parts.after,
      before7d            |-> before7d,
      countBefore         |-> Len(before7d),
      avgMagBefore        |-> AvgMagnitude(before7d),
      countAfter          |-> Len(parts.after),
      avgMagAfter         |-> AvgMagnitude(parts.after),
      foreshocks          |-> identifyForeshocks(parts.before, earthquake.time),
      beforeActivityLevel |-> getBeforeActivityLevel(Len(before7d),
                                                     AvgMagnitude(before7d)),
      heatmapData         |-> generateBeforeHeatmap(before7d, earthquake.time),
      largestAftershock   |-> LargestOf(parts.after)]

\* count7d > weeklyAverage * 1.2 ? 'increasing' :
\* count7d < weeklyAverage * 0.8 ? 'decreasing' : 'stable', with
\* weeklyAverage = count30d / 4.3
Trend(count7d, count30d) ==
  IF count7d * 43 > count30d * 12 THEN "increasing"
  ELSE IF count7d * 43 < count30d * 8 THEN "decreasing"
  ELSE "stable"

\* what a render of RealTimeActivityCard computes; now is the time of the
\* component's new Date(), later that of generateHeatmapData's
RealTimeActivityCard(location, allEarthquakes, now, later) ==
  LET nearbyEarthquakes ==
        RealTime_filterEarthquakesByRadius(allEarthquakes, location.latitude,
                                           location.longitude, 500)
      In7(eq) == WithinDays(eq, now, 7)
      In30(eq) == WithinDays(eq, now, 30)
      last7Days == SelectSeq(nearbyEarthquakes, In7)
      last30Days == SelectSeq(nearbyEarthquakes, In30)
  IN [nearbyEarthquakes |-> nearbyEarthquakes,
      last7Days         |-> last7Days,
      count7d           |-> Len(last7Days),
      count30d          |-> Len(last30Days),
      avgMag7d          |-> AvgMagnitude(last7Days),
      avgMag30d         |-> AvgMagnitude(last30Days),
      activityLevel     |-> getActivityLevel(Len(last7Days), AvgMagnitude(last7Days)),
      trend             |-> Trend(Len(last7Days), Len(last30Days)),
      heatmapData       |-> generateHeatmapData(last7Days, later),
      lastHere          |-> findLastEarthquakeHere(allEarthquakes, location.latitude,
                                                   location.longitude),
      nearestEvents     |-> Slice(nearbyEarthquakes, 0, 3)]

\* the props of a card that is about to render
CardProps(earthquake, allEarthquakes) ==
  [stage |-> "props", earthquake |-> earthquake, allEarthquakes |-> allEarthquakes]

\* the number of events of a 7-day set
MaxCount == 52

Counts == 0..MaxCount

\* average magnitudes, as fractions of tenths: 0, 4.0, 4.05, 4.1, 4.5,
\* 4.53.., 4.55, 4.6, 5.0, 5.1, 5.5, 5.6
AvgMags ==
  {[num |-> n, den |-> 1] : n \in {0, 40, 41, 45, 46, 50, 51, 55, 56}}
    \cup {[num |-> 81, den |-> 2], [num |-> 91, den |-> 2], [num |-> 136, den |-> 3]}

\* magnitudes of the events drawn on the map, in tenths
MarkerMagnitudes == {-5, 0, 10, 19, 20, 21, 45, 59, 60, 61, 90}

\* two events of every magnitude, at different places
MarkerEvents ==
  {[id |-> i, time |-> DateString(0), latitude |-> EqLatitude(i),
    longitude |-> EqLongitude(i), magnitude |-> magnitude] :
     i \in EqIds, magnitude \in MarkerMagnitudes}

\* the props of a marker that is about to render
MarkerProps(earthquake, isSelected) ==
  [stage |-> "markerProps", earthquake |-> earthquake, isSelected |-> isSelected]

\* EpicenterMarker with a larger circle for the selected event
EpicenterMarkerSelectedLarger(earthquake, isSelected) ==
  LET mag == earthquake.magnitude
      radius == Max(80, Min(240, mag * 4)) + (IF isSelected THEN 10 ELSE 0)
  IN [radius        |-> radius,
      containerSize |-> Max(480, radius * 4),
      borderWidth   |-> IF isSelected THEN 4 ELSE 3,
      scale         |-> IF isSelected THEN 11 ELSE 10]

\* what a render of EpicenterMarker computes; lengths in tenths of a
\* pixel, the scale in tenths
EpicenterMarker(earthquake, isSelected) ==
  LET mag == earthquake.magnitude
      radius == Max(80, Min(240, mag * 4))
  IN [radius        |-> radius,
      containerSize |-> Max(480, radius * 4),
      borderWidth   |-> IF isSelected THEN 4 ELSE 3,
      scale         |-> IF isSelected THEN 11 ELSE 10]

\* the metrics of a 7-day set that is about to be classified
LevelProps(count, avgMag) ==
  [stage |-> "metrics", count |-> count, avgMag |-> avgMag]

\* the cards are given a list and a mainshock, or the metrics of a 7-day
\* set, or the map an event to draw; no page event happens
CardInit ==
  /\ PagesInit
  /\ \/ \E magnitude \in MainMagnitudes, shocks \in ShockLists :
          LET main == Mainshock(magnitude)
          IN card = CardProps(main, EventList(shocks, main))
     \/ \E count \in Counts, avgMag \in AvgMags :
          card = LevelProps(count, avgMag)
     \/ \E earthquake \in MarkerEvents, isSelected \in BOOLEAN :
          card = MarkerProps(earthquake, isSelected)

pageVars == <<page, session, home, homeReqs, geoPending, detail, detailReqs, pdf,
              risk, riskCalls, search, searchReqs, models, modelsReqs, nextId, obs>>

\* DetailPanel renders the card of the selected earthquake; allEarthquakes
\* is the array of the props once the render is over, `left` the arrays
\* the render passed on, as the function they were passed to left them
RenderEarthquakeActivityCard ==
  /\ card.stage = "props"
  /\ LET earthquake == card.earthquake
         out == EarthquakeActivityCard(earthquake, card.allEarthquakes)
         filtered == filterEarthquakesByRadius_Arrays(
                       card.allEarthquakes, earthquake.latitude,
                       earthquake.longitude, out.radius)
         separated == separateBeforeAfter_Arrays(
                        out.nearbyEarthquakes, earthquake.time, earthquake.id)
         top == identifyForeshocks_Arrays(out.before, earthquake.time)
         counted == Heatmap_Arrays(out.before7d, NewDate(earthquake.time))
     IN card' = [stage          |-> "earthquake",
                 earthquake     |-> earthquake,
                 allEarthquakes |-> filtered.earthquakes,
                 out            |-> out,
                 left           |-> [nearbyEarthquakes |-> separated.earthquakes,
                                     before            |-> top.beforeEarthquakes,
                                     listed            |-> counted.earthquakes]]
  /\ UNCHANGED pageVars

\* LocationRiskPanel renders the card of the searched location; the clock
\* may advance between the two new Date() of the render
RenderRealTimeActivityCard(location, now, lag) ==
  /\ card.stage = "props"
  /\ LET out == RealTimeActivityCard(location, card.allEarthquakes, now, now + lag)
         filtered == filterEarthquakesByRadius_Arrays(
                       card.allEarthquakes, location.latitude,
                       location.longitude, 500)
         counted == Heatmap_Arrays(out.last7Days, now + lag)
         last == findLastEarthquakeHere_Arrays(
                   filtered.earthquakes, location.latitude, location.longitude)
     IN card' = [stage          |-> "location",
                 location       |-> location,
                 now            |-> now,
                 allEarthquakes |-> last.earthquakes,
                 out            |-> out,
                 left           |-> [nearbyEarthquakes |-> out.nearbyEarthquakes,
                                     before            |-> <<>>,
                                     listed            |-> counted.earthquakes]]
  /\ UNCHANGED pageVars

\* EarthquakeActivityCard classifies the 7 days before the mainshock
BeforeActivityLevel ==
  /\ card.stage = "metrics"
  /\ card' = [stage  |-> "beforeLevel",
              count  |-> card.count,
              avgMag |-> card.avgMag,
              level  |-> getBeforeActivityLevel(card.count, card.avgMag)]
  /\ UNCHANGED pageVars

\* RealTimeActivityCard classifies the last 7 days
ActivityLevel ==
  /\ card.stage = "metrics"
  /\ card' = [stage  |-> "activityLevel",
              count  |-> card.count,
              avgMag |-> card.avgMag,
              level  |-> getActivityLevel(card.count, card.avgMag)]
  /\ UNCHANGED pageVars

\* EarthquakeMap renders the marker of an event of the list
RenderEpicenterMarker ==
  /\ card.stage = "markerProps"
  /\ card' = [stage      |-> "marker",
              earthquake |-> card.earthquake,
              isSelected |-> card.isSelected,
              out        |-> EpicenterMarker(card.earthquake, card.isSelected)]
  /\ UNCHANGED pageVars

CardNext ==
  \/ RenderEarthquakeActivityCard
  \/ RenderEpicenterMarker
  \/ BeforeActivityLevel
  \/ ActivityLevel
  \/ \E location \in Locations, now \in RenderTimes, lag \in {0, 1} :
       RenderRealTimeActivityCard(location, now, lag)

SpecCard == CardInit /\ [][CardNext]_vars

----------------------------------------------------------------------------
(* Views of the components used by the properties *)

\* the error state and the loading flag of a component
ErrorOf(c) ==
  CASE c = "Home"   -> home.error
    [] c = "Detail" -> detail.error
    [] c = "Risk"   -> risk.error
    [] c = "Search" -> search.error
    [] c = "Models" -> models.error

LoadingOf(c) ==
  CASE c = "Home"   -> home.loading
    [] c = "Detail" -> detail.loading
    [] c = "Risk"   -> risk.loading
    [] c = "Search" -> search.loading
    [] c = "Models" -> models.loading

\* the calls of the mounted panel instance that have not settled
DetailOutstanding == {r \in detailReqs : DetailAlive(r)}

RiskOutstanding == {call \in riskCalls : RiskAlive(call)}

----------------------------------------------------------------------------
(* Properties of the asynchronous components *)

\* C1: when several fetches of one component were outstanding at once and
\* all have settled, the component holds the data of the fetch whose
\* successful response arrived last (Home.loadEarthquakes: the list;
\* DetailPanel.fetchPredictions: the predictions of the mounted instance).
C1_LastCompletedFetchWins ==
  /\ (page = "home" /\ homeReqs = {} /\ obs.okHome.seen)
       => home.earthquakes = obs.okHome.list
  /\ (DetailMounted /\ DetailOutstanding = {} /\ obs.okDetail.inst = detail.inst)
       => detail.predictions = obs.okDetail.predictions

\* one panel instance sent request 2 and then request 3; both succeeded,
\* request 3 first, and the panel holds the response of request 2
C1_Witness ==
  /\ DetailMounted
  /\ detail.inst = 1
  /\ obs.issued["Detail"] = 2
  /\ detailReqs = {}
  /\ detail.error = NoError
  /\ detail.predictions.req = 2
  /\ obs.okDetail.predictions.req = 2

C3_LoadingWhileOutstanding ==
  /\ homeReqs # {} => home.loading
  /\ DetailOutstanding # {} => detail.loading
  /\ RiskOutstanding # {} => risk.loading
  /\ searchReqs # {} => search.loading
  /\ modelsReqs # {} => models.loading

\* C4 as stated: whenever Home, ModelsPage, DetailPanel or LocationRiskPanel
\* shows an error (error non-null, loading false), it renders a Retry
\* control.
C4_RetryWhenErrorShown ==
  /\ (page = "home" /\ HomeErrorShown(home)) => HomeRetryRendered(home)
  /\ (page = "models" /\ ModelsErrorShown(models)) => ModelsRetryRendered(models)
  /\ (DetailMounted /\ DetailErrorShown(detail) /\ ~detail.loading)
       => DetailRetryRendered(detail)
  /\ (RiskMounted /\ RiskErrorShown(risk) /\ ~risk.loading)
       => RiskRetryRendered(risk)

\* C5 as stated: in every component the number of requests issued equals
\* the number of triggering events (mount, change of a watched input,
\* click on Retry).
C5_RequestsEqualTriggers ==
  \A c \in Comps : obs.issued[c] = obs.triggers[c]

\* C5, amended: requests go out only on a mount, a change of a watched
\* input or a click on Retry, and a failure starts none: the number of
\* requests issued equals the number of triggering events in Home,
\* DetailPanel, ModelsPage and SearchBar, and four times that number in
\* LocationRiskPanel, which sends one request per scenario.
C5_NoAutomaticRequests ==
  \A c \in Comps :
    obs.issued[c] = obs.triggers[c] * (IF c = "Risk" THEN Len(Scenarios) ELSE 1)

\* the four requests of the panel's only call have settled, the last one
\* failed, and no request is in flight
C5_Witness ==
  /\ obs.ev.kind = "fail"
  /\ obs.ev.comp = "Risk"
  /\ obs.triggers["Risk"] = 1
  /\ riskCalls = {}
  /\ risk.error # NoError

\* C6: the SearchBar sends an autocomplete request only for a query that
\* stayed unchanged for the debounce delay; a change of the query cancels
\* the pending timer, so no timer of a superseded value is pending, no
\* superseded value is sent, and at most one timer is pending.
C6_Debounce ==
  /\ Cardinality(search.timers) <= 1
  /\ \A t \in search.timers : t.query = search.searchQuery
  /\ (obs.ev.kind = "change" /\ obs.ev.comp = "Search")
       => /\ obs.sentAfter >= DebounceDelay
          /\ \E r \in searchReqs :
               r.id = obs.ev.id /\ r.query = search.searchQuery

\* a request was sent for a second query, typed after the first was sent
C6_Witness ==
  /\ obs.ev.kind = "change"
  /\ obs.ev.comp = "Search"
  /\ obs.triggers["Search"] = 2
  /\ obs.sentAfter >= DebounceDelay

\* C7 as stated: every PDF export passes predictions that answer the
\* request sent for the exported earthquake.
C7_ExportMatchesEarthquake ==
  pdf # NoPdf => pdf.predictions.eq = pdf.earthquake.id

----------------------------------------------------------------------------
(* Properties of the activity cards *)

\* how often a record occurs in a list
Occurrences(list, eq) == Cardinality({k \in 1..Len(list) : list[k] = eq})

\* C8: every event filterEarthquakesByRadius returns lies within the radius
\* of the point, by the haversine distance: in EarthquakeActivityCard
\* (radius by magnitude around the mainshock) and in RealTimeActivityCard
\* (500 km around the location).
C8_WithinRadius ==
  /\ card.stage = "earthquake" =>
       \A k \in 1..Len(card.out.nearbyEarthquakes) :
         calculateDistance(card.earthquake.latitude, card.earthquake.longitude,
                           card.out.nearbyEarthquakes[k].latitude,
                           card.out.nearbyEarthquakes[k].longitude)
           <= card.out.radius * 1000
  /\ card.stage = "location" =>
       \A k \in 1..Len(card.out.nearbyEarthquakes) :
         calculateDistance(card.location.latitude, card.location.longitude,
                           card.out.nearbyEarthquakes[k].latitude,
                           card.out.nearbyEarthquakes[k].longitude)
           <= 500 * 1000

\* the list held an event beyond the radius, and the filter returned some
\* but not all of the list
C8_Witness ==
  /\ card.stage = "earthquake"
  /\ \E k \in 1..Len(card.allEarthquakes) :
       calculateDistance(card.earthquake.latitude, card.earthquake.longitude,
                         card.allEarthquakes[k].latitude,
                         card.allEarthquakes[k].longitude)
         > card.out.radius * 1000
  /\ Len(card.out.nearbyEarthquakes) > 0
  /\ Len(card.out.nearbyEarthquakes) < Len(card.allEarthquakes)

\* C9: separateBeforeAfter puts every event with another id than the
\* mainshock's in exactly one list, before iff its timestamp is less than
\* the mainshock's and after otherwise (an equal timestamp included); the
\* events with the mainshock's id are in neither, and the lists hold
\* nothing else.
C9_BeforeAfter ==
  card.stage = "earthquake" =>
    LET given == card.out.nearbyEarthquakes
        before == card.out.before
        after == card.out.after
        T == NewDate(card.earthquake.time)
    IN /\ \A k \in 1..Len(given) :
            LET eq == given[k]
            IN IF eq.id = card.earthquake.id
                 THEN Occurrences(before, eq) = 0 /\ Occurrences(after, eq) = 0
               ELSE IF NewDate(eq.time) < T
                 THEN /\ Occurrences(before, eq) = Occurrences(given, eq)
                      /\ Occurrences(after, eq) = 0
               ELSE /\ Occurrences(after, eq) = Occurrences(given, eq)
                    /\ Occurrences(before, eq) = 0
       /\ \A k \in 1..Len(before) : Occurrences(given, before[k]) > 0
       /\ \A k \in 1..Len(after) : Occurrences(given, after[k]) > 0

\* the list held the mainshock, another event at the mainshock's time and
\* an event before it
C9_Witness ==
  /\ card.stage = "earthquake"
  /\ \E k \in 1..Len(card.out.nearbyEarthquakes) :
       card.out.nearbyEarthquakes[k].id = card.earthquake.id
  /\ \E k \in 1..Len(card.out.after) :
       NewDate(card.out.after[k].time) = NewDate(card.earthquake.time)
  /\ Len(card.out.before) > 0

\* the events of the card that count as foreshocks: not the mainshock, in
\* the seven days before it, of magnitude 3.5 or more
ForeshockCandidates ==
  LET T == NewDate(card.earthquake.time)
  IN {k \in 1..Len(card.out.nearbyEarthquakes) :
        LET eq == card.out.nearbyEarthquakes[k]
        IN /\ eq.id # card.earthquake.id
           /\ NewDate(eq.time) >= T - SevenDaysMs
           /\ NewDate(eq.time) < T
           /\ eq.magnitude >= 35}

\* C10: the foreshocks of EarthquakeActivityCard are the up to five
\* largest events among those of its events in [T - 7d, T) with magnitude
\* 3.5 or more: each is such an event, none is listed twice, they are five
\* or all of them, in descending order of magnitude, and no such event
\* left out is larger than a listed one.
C10_Foreshocks ==
  card.stage = "earthquake" =>
    LET given == card.out.nearbyEarthquakes
        foreshocks == card.out.foreshocks
        Listed(k) == \E i \in 1..Len(foreshocks) : foreshocks[i] = given[k]
    IN /\ Len(foreshocks) = Min(5, Cardinality(ForeshockCandidates))
       /\ \A i \in 1..Len(foreshocks) :
            \E k \in ForeshockCandidates : foreshocks[i] = given[k]
       /\ \A i, j \in 1..Len(foreshocks) :
            i < j => /\ foreshocks[i].id # foreshocks[j].id
                     /\ foreshocks[i].magnitude >= foreshocks[j].magnitude
       /\ \A k \in ForeshockCandidates :
            ~Listed(k) =>
              \A i \in 1..Len(foreshocks) :
                foreshocks[i].magnitude >= given[k].magnitude

\* six events counted as foreshocks, five are listed, and the largest of
\* the six came last in the list the card was given
C10_Witness ==
  /\ card.stage = "earthquake"
  /\ Cardinality(ForeshockCandidates) > 5
  /\ Len(card.out.foreshocks) = 5
  /\ \A k \in 1..Len(card.allEarthquakes) - 1 :
       card.allEarthquakes[k].magnitude
         < card.allEarthquakes[Len(card.allEarthquakes)].magnitude

\* the sum of the seven buckets of a heatmap
RECURSIVE SumBuckets(_, _)
SumBuckets(heatmap, upTo) ==
  IF upTo < 0 THEN 0 ELSE heatmap[upTo] + SumBuckets(heatmap, upTo - 1)

\* C11 as stated: the seven buckets of a card's heatmap add up to the
\* number of events of its 7-day set: countBefore in EarthquakeActivityCard,
\* count7d in RealTimeActivityCard.
C11_HeatmapSumsToCount ==
  /\ card.stage = "earthquake" =>
       SumBuckets(card.out.heatmapData, 6) = card.out.countBefore
  /\ card.stage = "location" =>
       SumBuckets(card.out.heatmapData, 6) = card.out.count7d

\* LOW < MODERATE < ELEVATED < HIGH
LevelRank(level) ==
  CASE level = "LOW"      -> 0
    [] level = "MODERATE" -> 1
    [] level = "ELEVATED" -> 2
    [] level = "HIGH"     -> 3

\* avgMag is at most other
AtMost(avgMag, other) == avgMag.num * other.den <= other.num * avgMag.den

\* C12 as stated: getBeforeActivityLevel(count, avgMag) is a step function:
\* HIGH iff count > 25 or avgMag > 4.5; otherwise ELEVATED iff count > 15
\* or avgMag > 4.0; otherwise MODERATE iff count > 5; otherwise LOW; and
\* no larger count or average gets a lower level.
C12_BeforeLevelSteps ==
  card.stage = "beforeLevel" =>
    LET count == card.count
        avgMag == card.avgMag
        high == count > 25 \/ Above(avgMag, 45)
        elevated == ~high /\ (count > 15 \/ Above(avgMag, 40))
        moderate == ~high /\ ~elevated /\ count > 5
    IN /\ card.level \in {"LOW", "MODERATE", "ELEVATED", "HIGH"}
       /\ card.level = "HIGH" <=> high
       /\ card.level = "ELEVATED" <=> elevated
       /\ card.level = "MODERATE" <=> moderate
       /\ card.level = "LOW" <=> ~high /\ ~elevated /\ ~moderate
       /\ \A more \in Counts, higher \in AvgMags :
            more >= count /\ AtMost(avgMag, higher) =>
              LevelRank(getBeforeActivityLevel(more, higher))
                >= LevelRank(card.level)

\* a set of 16 events averaging exactly 4.0 is classified: ELEVATED by its
\* count alone
C12_Witness ==
  /\ card.stage = "beforeLevel"
  /\ card.count = 16
  /\ card.avgMag = [num |-> 40, den |-> 1]
  /\ card.level = "ELEVATED"

\* C13 as stated: with count > 25 or an average above 4.5 both
\* classifiers answer HIGH.
C13_BothHighAbove25 ==
  card.stage \in {"beforeLevel", "activityLevel"} =>
    (card.count > 25 \/ Above(card.avgMag, 45) => card.level = "HIGH")

\* C13 amended: getBeforeActivityLevel answers HIGH iff count > 25 or the
\* average is above 4.5; getActivityLevel answers HIGH iff count7d > 50 or
\* the average is above 5.5, and with a count of 26 to 50 and an average
\* of at most 5.5 it answers ELEVATED.
C13_HighThresholds ==
  /\ card.stage = "beforeLevel" =>
       (card.level = "HIGH" <=> card.count > 25 \/ Above(card.avgMag, 45))
  /\ card.stage = "activityLevel" =>
       /\ card.level = "HIGH" <=> card.count > 50 \/ Above(card.avgMag, 55)
       /\ card.count > 25 /\ card.count <= 50 /\ ~Above(card.avgMag, 55) =>
            card.level = "ELEVATED"

\* RealTimeActivityCard classified 26 events averaging 4.6 as ELEVATED
C13_Witness ==
  /\ card.stage = "activityLevel"
  /\ card.count = 26
  /\ card.avgMag = [num |-> 46, den |-> 1]
  /\ card.level = "ELEVATED"

\* C14 as stated: the radius of an epicenter marker is max(8, min(24,
\* 4 * magnitude)): it lies between 8 and 24, every event of the same
\* magnitude gets the same radius whether selected or not, and no event of
\* a larger magnitude gets a smaller one.
C14_MarkerRadius ==
  card.stage = "marker" =>
    LET magnitude == card.earthquake.magnitude
        radius == card.out.radius
    IN /\ radius = Max(80, Min(240, 4 * magnitude))
       /\ radius >= 80 /\ radius <= 240
       /\ \A other \in MarkerEvents, isSelected \in BOOLEAN :
            LET otherRadius == EpicenterMarker(other, isSelected).radius
            IN /\ other.magnitude = magnitude => otherRadius = radius
               /\ other.magnitude >= magnitude => otherRadius >= radius

\* the marker of a selected event of magnitude 4.5 is drawn with radius 18
C14_Witness ==
  /\ card.stage = "marker"
  /\ card.isSelected
  /\ card.earthquake.magnitude = 45
  /\ card.out.radius = 180

\* C15 as stated: a render of a card leaves every list it works on as
\* it was: the list of the props after filterEarthquakesByRadius and
\* findLastEarthquakeHere, the nearby events after separateBeforeAfter, the
\* events before the mainshock after identifyForeshocks, and the 7-day set
\* after the heatmap was counted hold the same records in the same order,
\* with the same fields and values (no distance, no direction).
C15_ListsUnchanged ==
  [][card.stage = "props" /\ card'.stage \in {"earthquake", "location"} =>
       /\ card'.allEarthquakes = card.allEarthquakes
       /\ card'.left.nearbyEarthquakes = card'.out.nearbyEarthquakes
       /\ card'.stage = "earthquake" =>
            /\ card'.left.before = card'.out.before
            /\ card'.left.listed = card'.out.before7d
       /\ card'.stage = "location" =>
            card'.left.listed = card'.out.last7Days]_vars

\* a card was rendered from a list that is not in the order of time, in
\* which the functions found nearby events, events before the mainshock
\* and foreshocks, and sorted them into another order
C15_Witness ==
  /\ card.stage = "earthquake"
  /\ Len(card.allEarthquakes) >= 3
  /\ SortByTime(card.allEarthquakes) # card.allEarthquakes
  /\ Len(card.out.before) >= 2
  /\ Len(card.out.foreshocks) >= 2
  /\ SortByMagnitude(card.out.before) # card.out.before
  /\ \A k \in 1..Len(card.allEarthquakes) :
       DOMAIN card.allEarthquakes[k]
         = {"id", "time", "magnitude", "latitude", "longitude"}

\* C16 as stated: a detail panel that is opened, for the first time or
\* after it was closed, starts with no predictions, no error and loading
\* true; and while it is open, the predictions it holds and every response
\* that reaches it answer a request sent since it was opened, never one
\* sent before the close.
C16_ReopenedPanelIsFresh ==
  /\ obs.ev.kind = "mount" /\ obs.ev.comp = "Detail" =>
       /\ detail.predictions = NullPredictions
       /\ detail.error = NoError
       /\ detail.loading
  /\ DetailMounted /\ detail.predictions # NullPredictions =>
       detail.predictions.req >= obs.opened
  /\ DetailMounted /\ obs.ev.comp = "Detail" /\ obs.ev.kind \in {"ok", "fail"} =>
       obs.ev.id >= obs.opened

\* the panel was closed and opened again, and the response to the request
\* of the first panel arrived afterwards: the second panel still shows
\* loading, with no predictions and no error
C16_Witness ==
  /\ DetailMounted
  /\ detail.inst = 2
  /\ obs.ev.kind = "drop" /\ obs.ev.comp = "Detail"
  /\ obs.ev.id < obs.opened
  /\ detail.loading
  /\ detail.predictions = NullPredictions
  /\ detail.error = NoError

\* C17 as stated: selectedEarthquake and searchedLocation are never both
\* non-null, so that DetailPanel and LocationRiskPanel are never shown
\* together.
C17_OnePanelAtATime ==
  /\ ~(home.selectedEarthquake # NullEq /\ home.searchedLocation # NullLocation)
  /\ ~(DetailMounted /\ RiskMounted)

\* the user clicked an event while a searched location was shown: the
\* detail panel is open and the searched location is gone
C17_Witness ==
  /\ obs.replaced = "location"
  /\ DetailMounted
  /\ home.searchedLocation = NullLocation

\* C18 as stated: when a load of Home completes, the map is centred on
\* the first earthquake of the response, at zoom 5, if the response holds
\* an earthquake and userLocation and searchedLocation are both null at
\* that moment; otherwise the centre and the zoom stay as they are.
C18_RecentreOnlyWithoutLocation ==
  [][obs'.ev.comp = "Home" /\ obs'.ev.kind \in {"ok", "fail"} =>
       IF /\ obs'.ev.kind = "ok"
          /\ Len(home'.earthquakes) > 0
          /\ home.userLocation = NullCoords
          /\ home.searchedLocation = NullLocation
         THEN /\ home'.mapCenter = <<EqLatitude(home'.earthquakes[1].id),
                                      EqLongitude(home'.earthquakes[1].id)>>
              /\ home'.mapZoom = 5
         ELSE /\ home'.mapCenter = home.mapCenter
              /\ home'.mapZoom = home.mapZoom]_vars

C20_NoRequestForShortQuery ==
  [][/\ \A r \in searchReqs' \ searchReqs : Len(Trim(r.query)) >= 3
     /\ \A t \in search'.timers \ search.timers : Len(Trim(t.query)) >= 3
     /\ search'.searchQuery # search.searchQuery
          /\ Len(Trim(search'.searchQuery)) < 3
          => /\ search'.suggestions = <<>>
             /\ search'.timers = {}
             /\ searchReqs' = searchReqs]_vars

\* the query "abc" had started a timer and was changed to "ab " (three
\* characters, two after trimming): no timer is pending, nothing was sent
\* and the suggestions are empty
C20_Witness ==
  /\ search.searchQuery = <<"a", "b", " ">>
  /\ search.debounceTimer.set
  /\ search.timers = {}
  /\ search.suggestions = <<>>
  /\ searchReqs = {}
  /\ obs.issued["Search"] = 0
  /\ obs.sinceChange = 0

\* C21 as stated: the events RealTimeActivityCard lists as nearestEvents
\* are the three (or fewer) events within 500 km that are nearest to the
\* location: they are events of nearbyEarthquakes, three of them if there
\* are that many, and no event of nearbyEarthquakes that is not listed is
\* nearer than a listed one.
C21_NearestThree ==
  card.stage = "location" =>
    LET nearby == card.out.nearbyEarthquakes
        listed == card.out.nearestEvents
        Listed(eq) == \E j \in 1..Len(listed) : listed[j] = eq
    IN /\ Len(listed) = Min(3, Len(nearby))
       /\ \A j \in 1..Len(listed) : \E k \in 1..Len(nearby) : nearby[k] = listed[j]
       /\ \A k \in 1..Len(nearby) :
            ~Listed(nearby[k]) =>
              \A j \in 1..Len(listed) : listed[j].distance <= nearby[k].distance

\* C22 as stated: whenever DetailPanel shows the forecast block
\* (predictions non-null and loading false), the predictions are the
\* response to a request sent for the earthquake that is selected.
C22_PredictionsOfSelected ==
  DetailMounted /\ DetailShowsPredictions(detail)
    => detail.predictions.eq = home.selectedEarthquake.id

\* C23 as stated: DetailPanel never shows the failure message together
\* with a forecast: with loading false, a non-null error implies that
\* predictions is null.
C23_NoErrorWithForecast ==
  DetailMounted /\ ~detail.loading /\ detail.error # NoError
    => detail.predictions = NullPredictions

\* C24: a failed load of Home changes nothing but the flags: when
\* fetchRecentEarthquakes rejects, earthquakes, mapCenter, mapZoom,
\* selectedEarthquake, searchedLocation and timeFilter stay as they are,
\* error becomes the failure message and loading false; and every start
\* of a load resets error to null and sets loading.
C24_FailedLoadKeepsData ==
  [][/\ obs'.ev.comp = "Home" /\ obs'.ev.kind = "fail"
          => /\ home'.earthquakes = home.earthquakes
             /\ home'.mapCenter = home.mapCenter
             /\ home'.mapZoom = home.mapZoom
             /\ home'.selectedEarthquake = home.selectedEarthquake
             /\ home'.searchedLocation = home.searchedLocation
             /\ home'.timeFilter = home.timeFilter
             /\ home'.error = "Failed to load earthquakes. Please try again."
             /\ ~home'.loading
     /\ obs'.ev.comp = "Home" /\ obs'.ev.kind \in TriggerKinds
          => /\ home'.error = NoError
             /\ home'.loading]_vars

\* a list was loaded and the map centred on its first earthquake; the
\* load for another time filter has just failed: the list and the map are
\* as they were, the error is set and loading is false
C24_Witness ==
  /\ page = "home"
  /\ obs.ev.comp = "Home" /\ obs.ev.kind = "fail"
  /\ Len(home.earthquakes) > 0
  /\ home.mapZoom = 5
  /\ home.timeFilter # 7
  /\ home.error # NoError
  /\ ~home.loading

\* C25 as stated: the selected earthquake is always one of the earthquakes
\* that are loaded: selectedEarthquake is null or its id is the id of an
\* element of the earthquakes list.
C25_SelectedIsLoaded ==
  page = "home" /\ home.selectedEarthquake # NullEq
    => \E k \in 1..Len(home.earthquakes) :
         home.earthquakes[k].id = home.selectedEarthquake.id

\* C26 as stated: selecting a suggestion ends the search:
\* handleSelectSuggestion calls onLocationSearch once, with the name, the
\* latitude and the longitude of a suggestion of the list, and empties the
\* list; and from then until the user next edits the input, the list
\* stays empty and no autocomplete request is sent.
C26_SelectionEndsSearch ==
  [][/\ obs'.ev.comp = "Risk" /\ obs'.ev.kind \in TriggerKinds
          => /\ \E k \in 1..Len(search.suggestions) :
                  LET sg == search.suggestions[k]
                  IN /\ home'.searchedLocation.name = sg.name
                     /\ home'.searchedLocation.latitude = sg.lat
                     /\ home'.searchedLocation.longitude = sg.lon
             /\ obs'.triggers["Risk"] = obs.triggers["Risk"] + 1
             /\ search'.suggestions = <<>>
     /\ obs.chosen /\ obs'.chosen
          => /\ search'.suggestions = <<>>
             /\ searchReqs' \subseteq searchReqs]_vars

\* C27 as stated: whenever the search query has fewer than three
\* characters after trimming, the suggestion list of the SearchBar is
\* empty; and from handleClear until the user next types, the list is
\* empty and the error is null, whatever responses arrive.
C27_NoSuggestionsForShortQuery ==
  /\ Len(Trim(search.searchQuery)) < 3 => search.suggestions = <<>>
  /\ obs.cleared => search.suggestions = <<>> /\ search.error = NoError

\* the positions of a list whose events lie within radiusKm of a point
InRange(earthquakes, lat, lon, radiusKm) ==
  {k \in 1..Len(earthquakes) :
     calculateDistance(lat, lon, earthquakes[k].latitude, earthquakes[k].longitude)
       <= radiusKm * 1000}

\* result holds the events of the list within radiusKm of the point, each
\* as often as the list does and nothing else, most recent first
FilteredAndSorted(result, earthquakes, lat, lon, radiusKm) ==
  LET inRange == InRange(earthquakes, lat, lon, radiusKm)
  IN /\ Len(result) = Cardinality(inRange)
     /\ \A k \in inRange :
          LET eq == WithDistance(earthquakes[k], lat, lon)
          IN Occurrences(result, eq)
               = Cardinality({j \in inRange : earthquakes[j] = earthquakes[k]})
     /\ \A k \in 1..(Len(result) - 1) :
          NewDate(result[k].time) >= NewDate(result[k + 1].time)

\* C28: filterEarthquakesByRadius omits no event in range and orders its
\* result by time: the result holds every event of the list whose distance
\* is at most the radius exactly once, and the timestamps of consecutive
\* elements do not increase (most recent first); in both cards.
C28_AllInRangeByTime ==
  /\ card.stage = "earthquake" =>
       FilteredAndSorted(card.out.nearbyEarthquakes, card.allEarthquakes,
                         card.earthquake.latitude, card.earthquake.longitude,
                         card.out.radius)
  /\ card.stage = "location" =>
       FilteredAndSorted(card.out.nearbyEarthquakes, card.allEarthquakes,
                         card.location.latitude, card.location.longitude, 500)

\* the list held an event beyond the radius and two events within it, the
\* older one first: the filter returned the two, the more recent one first
C28_Witness ==
  /\ card.stage = "earthquake"
  /\ LET inRange == InRange(card.allEarthquakes, card.earthquake.latitude,
                            card.earthquake.longitude, card.out.radius)
     IN /\ Cardinality(inRange) = 2
        /\ Len(card.allEarthquakes) = 3
        /\ \E i, j \in inRange :
             /\ i < j
             /\ NewDate(card.allEarthquakes[i].time) < NewDate(card.allEarthquakes[j].time)
             /\ card.out.nearbyEarthquakes[1].id = card.allEarthquakes[j].id
             /\ card.out.nearbyEarthquakes[2].id = card.allEarthquakes[i].id

====
